---- MODULE Spec2Model ----
(***************************************************************************)
(* waylon-smithers: the loop controller (runLoop), the agent runner        *)
(* (runCodexIteration), the SIGINT handler and the start / resume / cancel *)
(* commands, as a state machine over the state file, the summary file,     *)
(* the final-message artifacts and the controller process.                 *)
(*                                                                         *)
(* One action is one synchronous stretch of JavaScript: the code between   *)
(* two suspension points (await on the child, await on the confirmation    *)
(* prompt) runs to completion before any other callback of that process,   *)
(* and a command of another process (cancel) is one action.                *)
(***************************************************************************)
EXTENDS Integers, Sequences, FiniteSets, TLC

(* ------------------------------ bounds --------------------------------- *)

\* largest --max-iterations value a start or a resume may pass
MaxIter == 2
\* the longest stdout and the longest stderr, in lines, of an invocation
\* whose session identifier is resolved on its own
MaxLines == 2
\* the most fragments a final message is put together from when
\* detectCompletion is looked at on its own
MaxParts == 4

(* ------------------------- JavaScript values --------------------------- *)

\* a falsy session identifier (null, undefined or "")
NoSession == ""
\* the identifiers the agent can report (they stand for two distinct UUIDs)
SessionIds == {"A", "B"}
\* exit code null: no exit code (spawn failure, child killed by a signal)
ExitNull == -1
\* the exit codes a closing child reports in this model
ExitCodes == {0, 1}

(* ------------------------------ strings -------------------------------- *)

\* TRUE iff sub occurs in s as a contiguous substring (String.includes)
Includes(s, sub) ==
  \E i \in 0..(Len(s) - Len(sub)) : SubSeq(s, i + 1, i + Len(sub)) = sub

OpenTag == <<"<", "p", "r", "o", "m", "i", "s", "e", ">">>
CloseTag == <<"<", "/", "p", "r", "o", "m", "i", "s", "e", ">">>
\* the completion promise of the loops of this model
Promise == <<"D", "O", "N", "E">>
\* the completion promise a resume may pass as --completion-promise
ResumePromise == <<"n", "o", "t">>

MsgTagged == <<"o", "k", " ">> \o OpenTag \o Promise \o CloseTag
MsgBare == <<"n", "o", "t", " ">> \o Promise
\* the final messages an agent turn writes in this model
Messages == {MsgTagged, MsgBare}

PromiseModes == {"tag", "plain"}

\* A completion promise used as a pattern (new RegExp(completionPromise)):
\* "." stands for any character, "(" opens a group and every other character
\* of this model stands for itself.  No promise of the model closes a
\* group, so a pattern compiles iff it opens none.
RegexCompiles(pattern) == \A k \in DOMAIN pattern : pattern[k] # "("

\* RegExp.prototype.test for a pattern that compiles: it matches somewhere
RegexTest(pattern, text) ==
  \E i \in 0..(Len(text) - Len(pattern)) :
    \A k \in DOMAIN pattern : pattern[k] = "." \/ pattern[k] = text[i + k]

\* faulty variant of detectCompletionRegex: a pattern that does not compile
\* counts as a match
detectCompletionRegexCatchMatches(lastMessage, completionPromise) ==
  RegexCompiles(completionPromise) => RegexTest(completionPromise, lastMessage)

\* lib.js 157-165: regex mode; the catch branch returns false
detectCompletionRegex(lastMessage, completionPromise) ==
  RegexCompiles(completionPromise) /\ RegexTest(completionPromise, lastMessage)

\* faulty variant of detectCompletion: the tags are not required
detectCompletionPlainOnly(lastMessage, promiseMode, completionPromise) ==
  IF lastMessage = <<>> THEN FALSE
  ELSE IF promiseMode = "regex"
       THEN detectCompletionRegex(lastMessage, completionPromise)
       ELSE Includes(lastMessage, completionPromise)

\* lib.js detectCompletion; the catch branch of regex mode returns false
detectCompletion(lastMessage, promiseMode, completionPromise) ==
  IF lastMessage = <<>> THEN FALSE
  ELSE IF promiseMode = "regex"
       THEN detectCompletionRegex(lastMessage, completionPromise)
       ELSE IF promiseMode = "tag"
            THEN Includes(lastMessage, OpenTag \o completionPromise \o CloseTag)
            ELSE Includes(lastMessage, completionPromise)

\* a final-message artifact: absent, or a file with a content
NoMsgFile == [exists |-> FALSE, content |-> <<>>]
MsgFile(m) == [exists |-> TRUE, content |-> m]

\* lib.js readFileSafe: an absent file reads as the empty text
readFileSafe(f) == IF ~f.exists THEN <<>> ELSE f.content

(* ------------------------- the agent's output -------------------------- *)

\* One line of the child's stdout or stderr, by what the two parsers see:
\*   brace       the trimmed line starts with "{"
\*   valid       JSON.parse accepts the line
\*   session_id  event.session_id, nested_id event.session.id,
\*   id / type   event.id and event.type        ("" when absent)
\*   uuid        the first UUID-shaped substring of the raw line ("" if none)
TextLine(u) ==
  [brace |-> FALSE, valid |-> FALSE, session_id |-> "", nested_id |-> "",
   id |-> "", type |-> "", uuid |-> u]
EventLine(sid) ==
  [brace |-> TRUE, valid |-> TRUE, session_id |-> sid, nested_id |-> "",
   id |-> "", type |-> "thread.started", uuid |-> ""]

OutNone == [stdout |-> <<TextLine("")>>, stderr |-> <<>>]
OutEventA == [stdout |-> <<EventLine("A"), TextLine("")>>, stderr |-> <<>>]
OutEventB == [stdout |-> <<EventLine("B")>>, stderr |-> <<>>]
OutTextB == [stdout |-> <<TextLine("")>>, stderr |-> <<TextLine("B")>>]
\* what one agent turn prints in this model
Outputs == {OutNone, OutEventA, OutEventB, OutTextB}

\* the identifier one parsed event carries, "" if none (lib.js 203-207)
EventSessionId(line) ==
  IF line.session_id # "" THEN line.session_id
  ELSE IF line.nested_id # "" THEN line.nested_id
  ELSE IF line.id # "" /\ line.type = "session" THEN line.id
  ELSE ""

RECURSIVE parseSessionIdFromJsonLines(_)
parseSessionIdFromJsonLines(lines) ==
  IF lines = <<>> THEN NoSession
  ELSE LET line == Head(lines) IN
       IF line.brace /\ line.valid /\ EventSessionId(line) # ""
       THEN EventSessionId(line)
       ELSE parseSessionIdFromJsonLines(Tail(lines))

RECURSIVE parseSessionIdFromText(_)
parseSessionIdFromText(lines) ==
  IF lines = <<>> THEN NoSession
  ELSE IF Head(lines).uuid # "" THEN Head(lines).uuid
  ELSE parseSessionIdFromText(Tail(lines))

\* a || b for session identifiers
OrElse(a, b) == IF a # NoSession THEN a ELSE b

\* faulty variant of ResolveSessionId: the identifier passed in for resume is
\* not fallen back to
ResolveSessionIdNoFallback(out, resumeSessionId) ==
  LET sessionIdFromJson == parseSessionIdFromJsonLines(out.stdout \o out.stderr)
      sessionIdFromText == OrElse(parseSessionIdFromText(out.stdout),
                                  parseSessionIdFromText(out.stderr))
  IN OrElse(sessionIdFromJson, sessionIdFromText)

\* faulty variant of ResolveSessionId: free text is preferred to events
ResolveSessionIdTextFirst(out, resumeSessionId) ==
  LET sessionIdFromJson == parseSessionIdFromJsonLines(out.stdout \o out.stderr)
      sessionIdFromText == OrElse(parseSessionIdFromText(out.stdout),
                                  parseSessionIdFromText(out.stderr))
  IN OrElse(sessionIdFromText, OrElse(sessionIdFromJson, resumeSessionId))

\* lib.js 338-340: the identifier runCodexIteration resolves
ResolveSessionId(out, resumeSessionId) ==
  LET sessionIdFromJson == parseSessionIdFromJsonLines(out.stdout \o out.stderr)
      sessionIdFromText == OrElse(parseSessionIdFromText(out.stdout),
                                  parseSessionIdFromText(out.stderr))
  IN OrElse(sessionIdFromJson, OrElse(sessionIdFromText, resumeSessionId))

(* --------------------------- the state record -------------------------- *)

Statuses ==
  {"running", "completed", "stopped_max_iterations", "paused_hard_stop",
   "paused_user_interrupt", "canceled", "error_spawn", "error_no_session"}

\* last_result: null
NoResult == [set |-> FALSE, exit_code |-> ExitNull, detected_promise |-> FALSE]
LastResult(code, detected) ==
  [set |-> TRUE, exit_code |-> code, detected_promise |-> detected]

\* state.todo: null when no --todo-file was given
NoTodo ==
  [configured |-> FALSE, hard_stop_mode |-> "pause", paused_for_hard_stop |-> FALSE]
Todo(mode) ==
  [configured |-> TRUE, hard_stop_mode |-> mode, paused_for_hard_stop |-> FALSE]
TodoOptions == {NoTodo, Todo("pause"), Todo("exit")}

\* lib.js resolveArtifactsDir: the default artifacts directory of the loop
LoopDir == ".codex/waylon-smithers/loops/loop"
\* a directory of the repository, as a user may pass for --last-message-dir
UserDir == "docs"

\* lib.js 10-11
DEFAULT_SANDBOX == "read-only"
DEFAULT_APPROVAL == "on-request"

\* the agent invocation options of one command line; "" stands for an
\* option that was not given
NoCodexOptions ==
  [model |-> "", profile |-> "", sandbox |-> "", askForApproval |-> "",
   fullAuto |-> FALSE]

\* the default value `{}` of the parameter `fallback` of buildCodexOptions
NoFallback == [model |-> "", profile |-> "", sandbox |-> "", approval |-> ""]

\* lib.js 409-423; "" stands for null
buildCodexOptions(options, fallback) ==
  LET sandboxFromOptions ==
        OrElse(options.sandbox, IF options.fullAuto THEN "workspace-write" ELSE "")
      approvalFromOptions ==
        OrElse(options.askForApproval, IF options.fullAuto THEN "on-request" ELSE "")
  IN [model |-> OrElse(options.model, fallback.model),
      profile |-> OrElse(options.profile, fallback.profile),
      sandbox |-> OrElse(sandboxFromOptions, OrElse(fallback.sandbox, DEFAULT_SANDBOX)),
      askForApproval |->
        OrElse(approvalFromOptions, OrElse(fallback.approval, DEFAULT_APPROVAL)),
      fullAuto |-> options.fullAuto]

\* lib.js 379-385 and part_004 315-318: the invocation options as the state
\* record stores them
StoredCodex(codexOptions) ==
  [model |-> codexOptions.model, sandbox |-> codexOptions.sandbox,
   approval |-> codexOptions.askForApproval, profile |-> codexOptions.profile]

\* lib.js createInitialState
createInitialState(maxIterations, completionPromise, promiseMode, samePromptEachIteration, todo, artifactsDir, codexOptions) ==
  [loop_id |-> "loop",
   codex |-> StoredCodex(codexOptions),
   artifacts |-> [dir |-> artifactsDir],
   prompt |-> "task",
   status |-> "running",
   iteration |-> 0,
   max_iterations |-> maxIterations,
   completion_promise |-> completionPromise,
   promise_mode |-> promiseMode,
   same_prompt_each_iteration |-> samePromptEachIteration,
   session_id |-> NoSession,
   todo |-> todo,
   history |-> <<>>,
   last_result |-> NoResult]

\* lib.js updateSummary: the projection written to the summary file
updateSummary(state) ==
  [loop_id |-> state.loop_id,
   status |-> state.status,
   iteration |-> state.iteration,
   max_iterations |-> state.max_iterations,
   completion_promise |-> state.completion_promise,
   promise_mode |-> state.promise_mode,
   history |-> state.history,
   last_result |-> state.last_result]

(* ------------------------------ variables ------------------------------ *)

VARIABLES
  stateFile,      \* the state file: {} when absent, else {record}
  summaryFile,    \* the summary file: {} when absent, else {projection}
  lastMsgFile,    \* iteration index -> final-message artifact
  todoHasToken,   \* the checkpoint file contains the sentinel
  mem,            \* the controller's `state` object: {} or {record}
  pc,             \* where the controller process is
  iter,           \* the loop variable `iteration` of runLoop
  sigintReceived, \* lib.js module flag
  currentChild,   \* lib.js module variable is non-null
  child,          \* the child process: "none", "running", "killed"
  launches,       \* the spawn calls of the current run, in order
  runStart,       \* state.iteration when the current run entered runLoop
  lastEvent,      \* the event the controller handled last
  stateFileTorn,  \* the state file holds only part of a serialized record
  repoFile,       \* a repository file in the directory UserDir exists
  cancelError,    \* some cancel command has failed with an error
  exec,           \* what one runCodexIteration call captured and was passed
  resolved,       \* the session identifier that call returned
  probe,          \* the arguments of one detectCompletion call
  verdict,        \* what that call returned
  written,        \* the invocation in flight has written its final message
  registered,     \* the `state` objects of the SIGINT listeners that earlier
                  \* runs of the live process registered, oldest first
  rival           \* a second process that runs handleStart for the same
                  \* loop id: how far it is, and the record it builds

\* the variables outside the loop controller and its files
sideVars ==
  <<stateFileTorn, repoFile, cancelError, exec, resolved, probe, verdict,
    written, registered, rival>>

vars == <<stateFile, summaryFile, lastMsgFile, todoHasToken, mem, pc, iter,
          sigintReceived, currentChild, child, launches, runStart, lastEvent,
          stateFileTorn, repoFile, cancelError, exec, resolved, probe,
          verdict, written, registered, rival>>

\* an event handled by the controller, with the session identifier that
\* runCodexIteration resolved when the event is a close
Event(kind, sessionId) == [kind |-> kind, sessionId |-> sessionId]

\* the options of one `resume` command: 0, <<>>, "" and "undefined" stand for
\* an option that was not given
NoOverrides ==
  [maxIterations |-> 0, completionPromise |-> <<>>, promiseMode |-> "",
   samePromptEachIteration |-> "undefined"]
\* a resume with at most --max-iterations
MaxOverrides ==
  {NoOverrides} \cup {[NoOverrides EXCEPT !.maxIterations = m] : m \in 1..MaxIter}
\* a resume with at most one of the four overriding options
ResumeOptions ==
  MaxOverrides
  \cup {[NoOverrides EXCEPT !.completionPromise = ResumePromise],
        [NoOverrides EXCEPT !.promiseMode = "plain"],
        [NoOverrides EXCEPT !.samePromptEachIteration = "true"]}

\* the close of the child as an event of the controller, with what
\* runCodexIteration returned for it
CloseEvent(sessionId, exitCode) ==
  [kind |-> "close", sessionId |-> sessionId, exitCode |-> exitCode]

\* the resume command as an event of the controller, with its options
ResumeEvent(options, codexOptions) ==
  [kind |-> "resume", sessionId |-> NoSession, options |-> options,
   codexOptions |-> codexOptions]

\* the controller's in-memory state record
State == CHOOSE s \in mem : TRUE

\* no controller process is alive
NoProcess == pc \in {"idle", "returned", "interrupted", "failed", "killed"}

\* the iteration indexes that have an artifact path in this model
Indexes == 1..(MaxIter + 1)

\* no second starter has been launched
NoRival == [pc |-> "none", initialState |-> {}]

InitLoop ==
  /\ stateFile = {}
  /\ summaryFile = {}
  /\ lastMsgFile = [i \in Indexes |-> NoMsgFile]
  /\ todoHasToken = FALSE
  /\ mem = {}
  /\ pc = "idle"
  /\ iter = 0
  /\ sigintReceived = FALSE
  /\ currentChild = FALSE
  /\ child = "none"
  /\ launches = <<>>
  /\ runStart = 0
  /\ lastEvent = Event("none", NoSession)
  /\ stateFileTorn = FALSE
  /\ repoFile = TRUE
  /\ cancelError = FALSE
  /\ written = FALSE
  /\ registered = <<>>
  /\ rival = NoRival

\* no runCodexIteration call is looked at on its own
NoExec == [stdout |-> <<>>, stderr |-> <<>>, resumeSessionId |-> NoSession]
Unresolved == [returned |-> FALSE, sessionId |-> NoSession]

\* no detectCompletion call is looked at on its own
NoProbe == [lastMessage |-> <<>>, promiseMode |-> "tag", completionPromise |-> <<>>]
NoVerdict == [returned |-> FALSE, value |-> FALSE]

Init ==
  /\ InitLoop
  /\ exec = NoExec
  /\ resolved = Unresolved
  /\ probe = NoProbe
  /\ verdict = NoVerdict

(* ---------------------- runLoop, piece by piece ------------------------ *)

\* faulty variant of LoopCondition: the cap is off by one
LoopConditionOffByOne(iteration, maxIterations) == iteration <= maxIterations + 1

\* part_004 82: the condition of the for loop
LoopCondition(iteration, maxIterations) == iteration <= maxIterations

\* faulty variant of PromptKind: same_prompt_each_iteration is ignored
PromptKindFirstOnly(state) ==
  IF state.session_id = NoSession THEN "full" ELSE "continue"

\* part_004 94: full templated prompt or short continuation prompt
PromptKind(state) ==
  IF state.session_id = NoSession \/ state.same_prompt_each_iteration
  THEN "full" ELSE "continue"

\* lib.js 258-267: `exec <prompt>` or `exec resume <session-id> <prompt>`
Framing(resumeSessionId) ==
  IF resumeSessionId # NoSession THEN "resume" ELSE "fresh"

\* faulty variant of Launch: a full prompt is sent with fresh framing
LaunchFreshOnFullPrompt(state, iteration) ==
  [iteration |-> iteration,
   framing |-> IF PromptKind(state) = "full" THEN "fresh" ELSE "resume",
   session |-> IF PromptKind(state) = "full" THEN NoSession ELSE state.session_id,
   prompt |-> PromptKind(state)]

\* the arguments of one spawn (part_004 121-128, lib.js 258-299)
Launch(state, iteration) ==
  [iteration |-> iteration,
   framing |-> Framing(state.session_id),
   session |-> state.session_id,
   prompt |-> PromptKind(state)]

\* faulty variant of SpawnFailure: the failed attempt is counted
SpawnFailureCounted(state) ==
  [state EXCEPT !.status = "error_spawn",
                !.iteration = state.iteration + 1,
                !.last_result = LastResult(ExitNull, FALSE)]

\* part_004 131-138: the catch branch
SpawnFailure(state) ==
  [state EXCEPT !.status = "error_spawn",
                !.last_result = LastResult(ExitNull, FALSE)]

\* faulty variant of MissingSession: last_result is reset as in the catch branch
MissingSessionLikeSpawn(state) ==
  [state EXCEPT !.status = "error_no_session",
                !.last_result = LastResult(ExitNull, FALSE)]

\* part_004 140-146
MissingSession(state) == [state EXCEPT !.status = "error_no_session"]

\* faulty variant of RecordIteration: the stored iteration is left alone
RecordIterationNoCount(state, iteration, exitCode, sessionId, detectedPromise) ==
  [state EXCEPT
     !.session_id = sessionId,
     !.status = "running",
     !.last_result = LastResult(exitCode, detectedPromise),
     !.history = Append(state.history,
                        [iteration |-> iteration,
                         exit_code |-> exitCode,
                         detected_promise |-> detectedPromise])]

\* faulty variant of RecordIteration: an exit code other than 0 is booked as
\* a failure to spawn
RecordIterationZeroOnly(state, iteration, exitCode, sessionId, detectedPromise) ==
  IF exitCode # 0
  THEN SpawnFailure(state)
  ELSE [state EXCEPT
          !.session_id = sessionId,
          !.iteration = iteration,
          !.status = "running",
          !.last_result = LastResult(exitCode, detectedPromise),
          !.history = Append(state.history,
                             [iteration |-> iteration,
                              exit_code |-> exitCode,
                              detected_promise |-> detectedPromise])]

\* faulty variant of RecordIteration: the detection flag of last_result
\* keeps the value false it is initialised with
RecordIterationFlagUnset(state, iteration, exitCode, sessionId, detectedPromise) ==
  [state EXCEPT
     !.session_id = sessionId,
     !.iteration = iteration,
     !.status = "running",
     !.last_result = LastResult(exitCode, FALSE),
     !.history = Append(state.history,
                        [iteration |-> iteration,
                         exit_code |-> exitCode,
                         detected_promise |-> detectedPromise])]

\* faulty variant of RecordIteration: last_result is left as it was
RecordIterationStaleResult(state, iteration, exitCode, sessionId, detectedPromise) ==
  [state EXCEPT
     !.session_id = sessionId,
     !.iteration = iteration,
     !.status = "running",
     !.history = Append(state.history,
                        [iteration |-> iteration,
                         exit_code |-> exitCode,
                         detected_promise |-> detectedPromise])]

\* faulty variant of RecordIteration: the history is rewritten, not appended
RecordIterationOverwrite(state, iteration, exitCode, sessionId, detectedPromise) ==
  [state EXCEPT
     !.session_id = sessionId,
     !.iteration = iteration,
     !.status = "running",
     !.last_result = LastResult(exitCode, detectedPromise),
     !.history = <<[iteration |-> iteration,
                    exit_code |-> exitCode,
                    detected_promise |-> detectedPromise]>>]

\* part_004 148-171: bookkeeping of a concluded iteration
RecordIteration(state, iteration, exitCode, sessionId, detectedPromise) ==
  [state EXCEPT
     !.session_id = sessionId,
     !.iteration = iteration,
     !.status = "running",
     !.last_result = LastResult(exitCode, detectedPromise),
     !.history = Append(state.history,
                        [iteration |-> iteration,
                         exit_code |-> exitCode,
                         detected_promise |-> detectedPromise])]

\* part_004 177
Completed(state) == [state EXCEPT !.status = "completed"]

\* faulty variant of PausedForHardStop: the flag is not set
PausedForHardStopNoFlag(state) == [state EXCEPT !.status = "paused_hard_stop"]

\* part_004 187-188
PausedForHardStop(state) ==
  [state EXCEPT !.status = "paused_hard_stop",
                !.todo.paused_for_hard_stop = state.todo.configured]

\* faulty variant of ContinueAfterHardStop: the flag stays set
ContinueAfterHardStopKeepsFlag(state) == [state EXCEPT !.status = "running"]

\* part_004 206-207
ContinueAfterHardStop(state) ==
  [state EXCEPT !.status = "running", !.todo.paused_for_hard_stop = FALSE]

\* lib.js checkHardStop behind the todoFile test of part_004 186
checkHardStop(state, hasToken) == state.todo.configured /\ hasToken

\* faulty variant of EndOfBody: the cap check is left to the loop condition
EndOfBodyNoCap(state, iteration) ==
  [state |-> state, pc |-> "top", iter |-> iteration + 1]

\* faulty variant of EndOfBody: > instead of >=
EndOfBodyStrict(state, iteration) ==
  IF iteration > state.max_iterations
  THEN [state |-> [state EXCEPT !.status = "stopped_max_iterations"],
        pc |-> "returned", iter |-> iteration]
  ELSE [state |-> state, pc |-> "top", iter |-> iteration + 1]

\* part_004 212-221: the cap check that ends the loop body, then iteration++
EndOfBody(state, iteration) ==
  IF iteration >= state.max_iterations
  THEN [state |-> [state EXCEPT !.status = "stopped_max_iterations"],
        pc |-> "returned", iter |-> iteration]
  ELSE [state |-> state, pc |-> "top", iter |-> iteration + 1]

\* faulty variant of LoopBranch: the checkpoint scan comes first
LoopBranchScanFirst(detectedPromise, hardStop) ==
  IF hardStop THEN "hard_stop"
  ELSE IF detectedPromise THEN "completed" ELSE "end_of_body"

\* part_004 176, 186, 212: which branch the loop body takes after the
\* bookkeeping of an iteration
LoopBranch(detectedPromise, hardStop) ==
  IF detectedPromise THEN "completed"
  ELSE IF hardStop THEN "hard_stop" ELSE "end_of_body"

\* faulty variant of AfterClose: no break after a detected completion
AfterCloseNoBreak(state, iteration, exitCode, sessionId, msgFile, hasToken) ==
  IF sessionId = NoSession
  THEN [state |-> MissingSession(state), pc |-> "returned", iter |-> iteration]
  ELSE
    LET detectedPromise ==
          detectCompletion(readFileSafe(msgFile), state.promise_mode,
                           state.completion_promise)
        recorded ==
          RecordIteration(state, iteration, exitCode, sessionId, detectedPromise)
    IN IF detectedPromise
       THEN [state |-> Completed(recorded), pc |-> "top", iter |-> iteration + 1]
       ELSE IF checkHardStop(recorded, hasToken)
       THEN [state |-> PausedForHardStop(recorded),
             pc |-> IF recorded.todo.hard_stop_mode = "exit"
                    THEN "returned" ELSE "awaiting_prompt",
             iter |-> iteration]
       ELSE EndOfBody(recorded, iteration)

\* part_004 140-221: from the resolved result of runCodexIteration to the
\* next suspension point, break or return
AfterClose(state, iteration, exitCode, sessionId, msgFile, hasToken) ==
  IF sessionId = NoSession
  THEN [state |-> MissingSession(state), pc |-> "returned", iter |-> iteration]
  ELSE
    LET detectedPromise ==
          detectCompletion(readFileSafe(msgFile), state.promise_mode,
                           state.completion_promise)
        recorded ==
          RecordIteration(state, iteration, exitCode, sessionId, detectedPromise)
        branch == LoopBranch(detectedPromise, checkHardStop(recorded, hasToken))
    IN IF branch = "completed"
       THEN [state |-> Completed(recorded), pc |-> "returned", iter |-> iteration]
       ELSE IF branch = "hard_stop"
       THEN [state |-> PausedForHardStop(recorded),
             pc |-> IF recorded.todo.hard_stop_mode = "exit"
                    THEN "returned" ELSE "awaiting_prompt",
             iter |-> iteration]
       ELSE EndOfBody(recorded, iteration)

\* faulty variant of CurrentChildAt: the registration is never cleared
CurrentChildNeverCleared(phase) == TRUE

\* lib.js 299-300 and 332: currentChild is the child from the spawn until the
\* awaited close or error, and null afterwards
CurrentChildAt(phase) == phase = "spawned"

\* faulty variant of OnInterrupt: the interrupted attempt resets last_result
OnInterruptCountsAttempt(state) ==
  [state EXCEPT !.status = "paused_user_interrupt",
                !.last_result = LastResult(ExitNull, FALSE)]

\* part_004 70-78: the callback runLoop registers for SIGINT
OnInterrupt(state) == [state EXCEPT !.status = "paused_user_interrupt"]

\* faulty variant of AfterInterrupt: the callback returns instead of exiting
AfterInterruptNoExit(at) == at

\* part_004 77: process.exit(1) at the end of the callback
AfterInterrupt(at) == "interrupted"

\* faulty variant of Canceled: the session identifier is dropped as well
CanceledDropsSession(state) ==
  [state EXCEPT !.status = "canceled", !.session_id = NoSession]

\* part_004 409
Canceled(state) == [state EXCEPT !.status = "canceled"]

(* ------------------------------- actions ------------------------------- *)

\* faulty variant of EnterRunLoop: the numbering restarts at 1
EnterRunLoopRestart(state) ==
  /\ mem' = {state}
  /\ sigintReceived' = FALSE
  /\ currentChild' = FALSE
  /\ child' = "none"
  /\ launches' = <<>>
  /\ runStart' = state.iteration
  /\ iter' = 1
  /\ pc' = "top"

\* faulty variant of StateFileExists: the test is skipped
StateFileExistsNever(file) == FALSE

\* part_004 238 in handleStart: fs.existsSync(statePath)
StateFileExists(file) == file # {}

\* faulty variant of ApplyOverrides: --completion-promise is ignored
ApplyOverridesNoPromise(loaded, options) ==
  [loaded EXCEPT
     !.max_iterations =
        IF options.maxIterations # 0 THEN options.maxIterations ELSE @,
     !.promise_mode =
        IF options.promiseMode # "" THEN options.promiseMode ELSE @,
     !.same_prompt_each_iteration =
        IF options.samePromptEachIteration # "undefined" THEN TRUE ELSE @]

\* part_004 301-312: the overrides handleResume applies to the loaded record
ApplyOverrides(loaded, options) ==
  [loaded EXCEPT
     !.max_iterations =
        IF options.maxIterations # 0 THEN options.maxIterations ELSE @,
     !.completion_promise =
        IF options.completionPromise # <<>> THEN options.completionPromise ELSE @,
     !.promise_mode =
        IF options.promiseMode # "" THEN options.promiseMode ELSE @,
     !.same_prompt_each_iteration =
        IF options.samePromptEachIteration # "undefined" THEN TRUE ELSE @]

\* part_004 65-82: runLoop up to the first test of the loop condition
EnterRunLoop(state) ==
  /\ mem' = {state}
  /\ sigintReceived' = FALSE
  /\ currentChild' = FALSE
  /\ child' = "none"
  /\ launches' = <<>>
  /\ runStart' = state.iteration
  /\ iter' = state.iteration + 1
  /\ pc' = "top"

\* part_004 228-230: "" stands for no --last-message-dir
ArtifactsDir(lastMessageDir) ==
  IF lastMessageDir # "" THEN lastMessageDir ELSE LoopDir

\* handleStart: a new process runs `waylon-smithers <prompt> ...`
StartWithCodex(configs, codexSets) ==
  /\ NoProcess
  /\ ~StateFileExists(stateFile)
  /\ \E options \in configs, codex \in codexSets :
       LET codexOptions == buildCodexOptions(codex, NoFallback)
           initialState ==
             createInitialState(options.maxIterations,
                                options.completionPromise, options.promiseMode,
                                options.samePromptEachIteration, options.todo,
                                ArtifactsDir(options.lastMessageDir),
                                codexOptions)
       IN /\ stateFile' = {initialState}
          /\ summaryFile' = {updateSummary(initialState)}
          /\ EnterRunLoop(initialState)
  /\ lastEvent' = Event("start", NoSession)
  /\ UNCHANGED <<lastMsgFile, todoHasToken>>
  /\ UNCHANGED sideVars

\* a start without any of the agent invocation options
StartWith(configs) == StartWithCodex(configs, {NoCodexOptions})

\* the options a start is run with
StartConfigs ==
  [maxIterations : 1..MaxIter, completionPromise : {Promise},
   promiseMode : PromiseModes,
   samePromptEachIteration : BOOLEAN, todo : TodoOptions,
   lastMessageDir : {""}]

HandleStart == StartWith(StartConfigs)

\* handleStart when the state file exists: it throws before creating anything
HandleStartExists ==
  /\ NoProcess
  /\ StateFileExists(stateFile)
  /\ pc' = "failed"
  /\ mem' = {}
  /\ sigintReceived' = FALSE
  /\ currentChild' = FALSE
  /\ launches' = <<>>
  /\ lastEvent' = Event("start_failed", NoSession)
  /\ UNCHANGED <<stateFile, summaryFile, lastMsgFile, todoHasToken, iter,
                 child, runStart>>
  /\ UNCHANGED sideVars

\* handleResume: a new process runs `waylon-smithers resume ...`
handleResume(optionSets, codexSets) ==
  /\ NoProcess
  /\ stateFile # {}
  /\ ~stateFileTorn
  /\ \E loaded \in stateFile, options \in optionSets, codex \in codexSets :
       LET codexOptions == buildCodexOptions(codex, NoFallback)
           state == [ApplyOverrides(loaded, options) EXCEPT
                       !.codex = StoredCodex(codexOptions)]
       IN /\ stateFile' = {state}
          /\ EnterRunLoop(state)
          /\ lastEvent' = ResumeEvent(options, codex)
  /\ UNCHANGED <<summaryFile, lastMsgFile, todoHasToken>>

\* resume in a process of its own
ResumeWithCodex(optionSets, codexSets) ==
  handleResume(optionSets, codexSets) /\ UNCHANGED sideVars

\* a resume without any of the agent invocation options
ResumeWith(optionSets) == ResumeWithCodex(optionSets, {NoCodexOptions})

HandleResume == ResumeWith(MaxOverrides)

\* part_004 82-128 and lib.js 258-300: the top of one loop iteration, up to
\* the await on the child
LoopTopStep ==
  /\ pc = "top"
  /\ IF LoopCondition(iter, State.max_iterations) /\ ~sigintReceived
     THEN /\ launches' = Append(launches, Launch(State, iter))
          /\ currentChild' = CurrentChildAt("spawned")
          /\ child' = "running"
          /\ pc' = "awaiting_child"
          /\ lastEvent' = Event("spawn", NoSession)
     ELSE /\ pc' = "returned"
          /\ lastEvent' = Event("exhausted", NoSession)
          /\ UNCHANGED <<launches, currentChild, child>>
  /\ UNCHANGED <<stateFile, summaryFile, lastMsgFile, todoHasToken, mem, iter,
                 sigintReceived, runStart>>

LoopTop == LoopTopStep /\ UNCHANGED sideVars

\* the running agent writes its final message (--output-last-message)
ChildWriteMessageStep ==
  /\ child = "running"
  /\ \E m \in Messages : lastMsgFile' = [lastMsgFile EXCEPT ![iter] = MsgFile(m)]
  /\ UNCHANGED <<stateFile, summaryFile, todoHasToken, mem, pc, iter,
                 sigintReceived, currentChild, child, launches, runStart,
                 lastEvent>>

ChildWriteMessage == ChildWriteMessageStep /\ UNCHANGED sideVars

\* somebody (the agent, a human) edits the checkpoint file of a loop that
\* was started with --todo-file
EditTodo ==
  /\ stateFile # {}
  /\ \A s \in stateFile : s.todo.configured
  /\ todoHasToken' = ~todoHasToken
  /\ UNCHANGED <<stateFile, summaryFile, lastMsgFile, mem, pc, iter,
                 sigintReceived, currentChild, child, launches, runStart,
                 lastEvent>>
  /\ UNCHANGED sideVars

\* the child's close event: lib.js 325-347, then part_004 129-221
CloseStepWith(exitCodes, outs) ==
  /\ pc = "awaiting_child"
  /\ child # "none"
  /\ \E exitCode \in exitCodes, out \in outs :
       LET resumeSessionId == launches[Len(launches)].session
           sessionId == ResolveSessionId(out, resumeSessionId)
           next == AfterClose(State, iter, exitCode, sessionId,
                              lastMsgFile[iter], todoHasToken)
       IN /\ mem' = {next.state}
          /\ stateFile' = {next.state}
          /\ summaryFile' = {updateSummary(next.state)}
          /\ pc' = next.pc
          /\ iter' = next.iter
          /\ lastEvent' = CloseEvent(sessionId, exitCode)
  /\ currentChild' = CurrentChildAt("finished")
  /\ child' = "none"
  /\ UNCHANGED <<lastMsgFile, todoHasToken, sigintReceived, launches, runStart>>

\* the close of a child that printed any of the outputs
CloseWith(exitCodes) ==
  CloseStepWith(exitCodes, Outputs) /\ UNCHANGED sideVars

ChildClose == CloseWith(ExitCodes)

\* the child's error event before any close: lib.js 321-336, part_004 131-138
ChildError ==
  /\ pc = "awaiting_child"
  /\ child # "none"
  /\ LET failed == SpawnFailure(State)
     IN /\ mem' = {failed}
        /\ stateFile' = {failed}
        /\ summaryFile' = {updateSummary(failed)}
  /\ pc' = "returned"
  /\ currentChild' = CurrentChildAt("finished")
  /\ child' = "none"
  /\ lastEvent' = Event("error", NoSession)
  /\ UNCHANGED <<lastMsgFile, todoHasToken, iter, sigintReceived, launches,
                 runStart>>
  /\ UNCHANGED sideVars

\* the user answers the confirmation prompt with yes: part_004 206-221
PromptConfirm ==
  /\ pc = "awaiting_prompt"
  /\ LET next == EndOfBody(ContinueAfterHardStop(State), iter)
     IN /\ mem' = {next.state}
        /\ stateFile' = {next.state}
        /\ summaryFile' = {updateSummary(next.state)}
        /\ pc' = next.pc
        /\ iter' = next.iter
  /\ lastEvent' = Event("confirm", NoSession)
  /\ UNCHANGED <<lastMsgFile, todoHasToken, sigintReceived, currentChild,
                 child, launches, runStart>>
  /\ UNCHANGED sideVars

\* the user answers anything else: part_004 201-204
PromptDecline ==
  /\ pc = "awaiting_prompt"
  /\ pc' = "returned"
  /\ lastEvent' = Event("decline", NoSession)
  /\ UNCHANGED <<stateFile, summaryFile, lastMsgFile, todoHasToken, mem, iter,
                 sigintReceived, currentChild, child, launches, runStart>>
  /\ UNCHANGED sideVars

\* SIGINT while the controller is suspended: lib.js 239-247, part_004 70-78
Sigint ==
  /\ pc \in {"awaiting_child", "awaiting_prompt"}
  /\ sigintReceived' = TRUE
  /\ child' = IF currentChild /\ child # "none" THEN "killed" ELSE child
  /\ LET paused == OnInterrupt(State)
     IN /\ mem' = {paused}
        /\ stateFile' = {paused}
        /\ summaryFile' = {updateSummary(paused)}
  /\ pc' = AfterInterrupt(pc)
  /\ lastEvent' = Event("sigint", NoSession)
  /\ UNCHANGED <<lastMsgFile, todoHasToken, iter, currentChild, launches,
                 runStart>>
  /\ UNCHANGED sideVars

\* handleCancel (without --cleanup-artifacts), run by another process at any
\* time; on a record that is already `canceled` it rewrites the same fields
HandleCancel ==
  /\ stateFile # {}
  /\ ~stateFileTorn
  /\ \E loaded \in stateFile :
       /\ loaded.status # "canceled"
       /\ stateFile' = {Canceled(loaded)}
  /\ UNCHANGED <<summaryFile, lastMsgFile, todoHasToken, mem, pc, iter,
                 sigintReceived, currentChild, child, launches, runStart,
                 lastEvent>>
  /\ UNCHANGED sideVars

Next ==
  \/ HandleStart
  \/ HandleStartExists
  \/ HandleResume
  \/ LoopTop
  \/ ChildWriteMessage
  \/ EditTodo
  \/ ChildClose
  \/ ChildError
  \/ PromptConfirm
  \/ PromptDecline
  \/ Sigint
  \/ HandleCancel

Spec == Init /\ [][Next]_vars

\* ---------------------------------------------------------------------
\* One runCodexIteration call on its own: what it captured, what it returns
\* ---------------------------------------------------------------------

\* the kinds of line the two parsers tell apart
ResolveLines ==
  {TextLine(""),
   TextLine("B"),
   EventLine("A"),
   [EventLine("") EXCEPT !.nested_id = "C"],
   [EventLine("") EXCEPT !.id = "D", !.type = "session"],
   [EventLine("") EXCEPT !.id = "D"],
   [EventLine("A") EXCEPT !.nested_id = "C", !.id = "D", !.type = "session",
                          !.uuid = "A"],
   [TextLine("B") EXCEPT !.brace = TRUE]}

LinesUpTo(n) == UNION {[1..k -> ResolveLines] : k \in 0..n}

ExecInputs ==
  [stdout : LinesUpTo(MaxLines), stderr : LinesUpTo(MaxLines),
   resumeSessionId : {NoSession, "R"}]

InitResolve ==
  /\ InitLoop
  /\ exec \in ExecInputs
  /\ resolved = Unresolved
  /\ probe = NoProbe
  /\ verdict = NoVerdict

\* lib.js 338-347: the child has closed without a spawn error
RunCodexIterationReturns ==
  /\ ~resolved.returned
  /\ resolved' = [returned |-> TRUE,
                  sessionId |-> ResolveSessionId(exec, exec.resumeSessionId)]
  /\ UNCHANGED <<stateFile, summaryFile, lastMsgFile, todoHasToken, mem, pc,
                 iter, sigintReceived, currentChild, child, launches, runStart,
                 lastEvent, stateFileTorn, repoFile, cancelError, exec,
                 probe, verdict, written, registered, rival>>

NextResolve == RunCodexIterationReturns

SpecResolve == InitResolve /\ [][NextResolve]_vars

\* ---------------------------------------------------------------------
\* One detectCompletion call on its own
\* ---------------------------------------------------------------------

\* a promise that is a pattern with a wildcard, and one that does not compile
WildPromise == <<"D", ".", "N", "E">>
BadPromise == <<"(", "D">>

\* what final messages are put together from
Fragments ==
  {OpenTag, CloseTag, Promise, <<"D", "O", "N">>, <<" ">>, <<"(">>, <<"D">>}

RECURSIVE Concat(_)
Concat(parts) ==
  IF parts = <<>> THEN <<>> ELSE Head(parts) \o Concat(Tail(parts))

\* the final messages of up to n fragments; the empty one is what
\* readFileSafe returns for an absent or empty artifact
MessagesUpTo(n) ==
  {Concat(parts) : parts \in UNION {[1..k -> Fragments] : k \in 0..n}}

ProbeInputs ==
  [lastMessage : MessagesUpTo(MaxParts),
   promiseMode : {"tag", "plain", "regex"},
   completionPromise : {Promise, <<"D", "O", "N">>, WildPromise, BadPromise}]

InitDetect ==
  /\ InitLoop
  /\ exec = NoExec
  /\ resolved = Unresolved
  /\ probe \in ProbeInputs
  /\ verdict = NoVerdict

\* part_004 158-159: detectCompletion is called and returns
DetectCompletionReturns ==
  /\ ~verdict.returned
  /\ verdict' = [returned |-> TRUE,
                 value |-> detectCompletion(probe.lastMessage, probe.promiseMode,
                                            probe.completionPromise)]
  /\ UNCHANGED <<stateFile, summaryFile, lastMsgFile, todoHasToken, mem, pc,
                 iter, sigintReceived, currentChild, child, launches, runStart,
                 lastEvent, stateFileTorn, repoFile, cancelError, exec,
                 resolved, probe, written, registered, rival>>

NextDetect == DetectCompletionReturns

SpecDetect == InitDetect /\ [][NextDetect]_vars

\* ---------------------------------------------------------------------
\* Loops started in regex mode, with a pattern that compiles or with one
\* that does not
\* ---------------------------------------------------------------------
RegexStartConfigs ==
  [maxIterations : 1..MaxIter, completionPromise : {WildPromise, BadPromise},
   promiseMode : {"regex"}, samePromptEachIteration : {FALSE},
   todo : TodoOptions, lastMessageDir : {""}]

HandleStartRegex == StartWith(RegexStartConfigs)

NextRegex ==
  \/ HandleStartRegex
  \/ HandleStartExists
  \/ HandleResume
  \/ LoopTop
  \/ ChildWriteMessage
  \/ EditTodo
  \/ ChildClose
  \/ ChildError
  \/ PromptConfirm
  \/ PromptDecline
  \/ Sigint
  \/ HandleCancel

SpecRegex == Init /\ [][NextRegex]_vars

\* ---------------------------------------------------------------------
\* Loops whose children close with exit code 0, with another exit code, or
\* with none (killed by a signal)
\* ---------------------------------------------------------------------
ExitStartConfigs ==
  [maxIterations : 1..MaxIter, completionPromise : {Promise},
   promiseMode : {"tag"}, samePromptEachIteration : {FALSE},
   todo : {NoTodo, Todo("exit")}, lastMessageDir : {""}]

HandleStartTagged == StartWith(ExitStartConfigs)

ChildCloseAnyCode == CloseWith(ExitCodes \cup {ExitNull})

NextExit ==
  \/ HandleStartTagged
  \/ HandleStartExists
  \/ HandleResume
  \/ LoopTop
  \/ ChildWriteMessage
  \/ EditTodo
  \/ ChildCloseAnyCode
  \/ ChildError
  \/ Sigint
  \/ HandleCancel

SpecExit == Init /\ [][NextExit]_vars

\* ---------------------------------------------------------------------
\* Loops started with or without --last-message-dir, and the cancel
\* command in all its outcomes
\* ---------------------------------------------------------------------
CancelStartConfigs ==
  [maxIterations : 1..MaxIter, completionPromise : {Promise},
   promiseMode : {"tag"},
   samePromptEachIteration : {FALSE}, todo : {NoTodo},
   lastMessageDir : {"", UserDir}]

HandleStartAnyDir == StartWith(CancelStartConfigs)

HandleResumeAsStored == ResumeWith({NoOverrides})

\* lib.js deleteArtifacts, on the files under artifactsDir: the final-message
\* artifacts, and whatever else the directory holds
RemoveDir(artifactsDir) ==
  /\ lastMsgFile' = [i \in Indexes |-> NoMsgFile]
  /\ summaryFile' = {}
  /\ repoFile' = IF artifactsDir = UserDir THEN FALSE ELSE repoFile

\* handleCancel with --cleanup-artifacts (part_004 405-416)
HandleCancelCleanup ==
  /\ stateFile # {}
  /\ ~stateFileTorn
  /\ \E loaded \in stateFile :
       LET state == Canceled(loaded)
       IN RemoveDir(state.artifacts.dir)
  /\ stateFile' = {}
  /\ UNCHANGED <<todoHasToken, mem, pc, iter, sigintReceived, currentChild,
                 child, launches, runStart, lastEvent, stateFileTorn,
                 cancelError, exec, resolved, probe,
                 verdict, written, registered, rival>>

\* handleCancel when loadState throws (part_004 408, lib.js 61-66): there is
\* no state file
HandleCancelMissing ==
  /\ stateFile = {}
  /\ cancelError' = TRUE
  /\ UNCHANGED <<stateFile, summaryFile, lastMsgFile, todoHasToken, mem, pc,
                 iter, sigintReceived, currentChild, child, launches, runStart,
                 lastEvent, stateFileTorn, repoFile, exec, resolved, probe,
                 verdict, written, registered, rival>>

NextCancel ==
  \/ HandleStartAnyDir
  \/ HandleStartExists
  \/ HandleResumeAsStored
  \/ LoopTop
  \/ ChildWriteMessage
  \/ ChildClose
  \/ ChildError
  \/ Sigint
  \/ HandleCancel
  \/ HandleCancelCleanup
  \/ HandleCancelMissing

SpecCancel == Init /\ [][NextCancel]_vars

\* ---------------------------------------------------------------------
\* Loops without a checkpoint file, resumed with any of the overriding
\* options
\* ---------------------------------------------------------------------
PlainStartConfigs ==
  [maxIterations : 1..MaxIter, completionPromise : {Promise},
   promiseMode : PromiseModes,
   samePromptEachIteration : {FALSE}, todo : {NoTodo}, lastMessageDir : {""}]

HandleStartPlain == StartWith(PlainStartConfigs)

HandleResumeOptions == ResumeWith(ResumeOptions)

NextResume ==
  \/ HandleStartPlain
  \/ HandleStartExists
  \/ HandleResumeOptions
  \/ LoopTop
  \/ ChildWriteMessage
  \/ ChildClose
  \/ ChildError
  \/ Sigint
  \/ HandleCancel

SpecResume == Init /\ [][NextResume]_vars

\* ---------------------------------------------------------------------
\* A controller that can die inside a write of the state file.  writeJson
\* is fs.writeFileSync on the state path itself (lib.js 51-54): the file is
\* truncated, then filled.  While stateFileTorn holds, stateFile is the
\* record that was being replaced and no reader can parse the file.
\* ---------------------------------------------------------------------

\* the controller process is killed (SIGKILL, crash, power loss) inside the
\* saveState that follows the close of the child (part_004 171, lib.js 53)
KilledInWriteJson ==
  /\ pc = "awaiting_child"
  /\ child # "none"
  /\ stateFile # {}
  /\ ~stateFileTorn
  /\ stateFileTorn' = TRUE
  /\ pc' = "killed"
  /\ mem' = {}
  /\ currentChild' = FALSE
  /\ child' = "none"
  /\ lastEvent' = Event("killed", NoSession)
  /\ UNCHANGED <<stateFile, summaryFile, lastMsgFile, todoHasToken, iter,
                 sigintReceived, launches, runStart, repoFile, cancelError,
                 exec, resolved, probe,
                 verdict, written, registered, rival>>

\* handleResume when loadState cannot parse the file (part_004 289,
\* lib.js 61-66)
HandleResumeTorn ==
  /\ NoProcess
  /\ stateFile # {}
  /\ stateFileTorn
  /\ pc' = "failed"
  /\ lastEvent' = Event("resume_failed", NoSession)
  /\ UNCHANGED <<stateFile, summaryFile, lastMsgFile, todoHasToken, mem, iter,
                 sigintReceived, currentChild, child, launches, runStart,
                 stateFileTorn, repoFile, cancelError, exec, resolved, probe,
                 verdict, written, registered, rival>>

\* handleCancel when loadState cannot parse the file (part_004 408)
HandleCancelTorn ==
  /\ stateFile # {}
  /\ stateFileTorn
  /\ cancelError' = TRUE
  /\ UNCHANGED <<stateFile, summaryFile, lastMsgFile, todoHasToken, mem, pc,
                 iter, sigintReceived, currentChild, child, launches, runStart,
                 lastEvent, stateFileTorn, repoFile, exec, resolved, probe,
                 verdict, written, registered, rival>>

NextTorn ==
  \/ HandleStartPlain
  \/ HandleStartExists
  \/ HandleResumeAsStored
  \/ HandleResumeTorn
  \/ LoopTop
  \/ ChildWriteMessage
  \/ ChildClose
  \/ ChildError
  \/ Sigint
  \/ HandleCancel
  \/ HandleCancelTorn
  \/ KilledInWriteJson

SpecTorn == Init /\ [][NextTorn]_vars

\* ---------------------------------------------------------------------
\* Loops whose re-runs of an unrecorded iteration find the final-message
\* file of the earlier attempt at the same path
\* ---------------------------------------------------------------------

\* the side variables but `written`
sideVarsButWritten ==
  <<stateFileTorn, repoFile, cancelError, exec, resolved, probe, verdict,
    registered, rival>>

\* the spawn of a child, which has written nothing yet
LoopTopFresh ==
  /\ LoopTopStep
  /\ written' = FALSE
  /\ UNCHANGED sideVarsButWritten

\* the child in flight writes its final message
ChildWritesOwnMessage ==
  /\ ChildWriteMessageStep
  /\ written' = TRUE
  /\ UNCHANGED sideVarsButWritten

NextStale ==
  \/ HandleStartPlain
  \/ HandleStartExists
  \/ HandleResumeAsStored
  \/ LoopTopFresh
  \/ ChildWritesOwnMessage
  \/ ChildClose
  \/ ChildError
  \/ Sigint

SpecStale == Init /\ [][NextStale]_vars

\* ---------------------------------------------------------------------
\* One process that calls handleStart and then handleResume (both are
\* exported), and stays alive after a run has returned
\* ---------------------------------------------------------------------

\* the runs one process makes
MaxRuns == 2

\* the side variables but `registered`
sideVarsButRegistered ==
  <<stateFileTorn, repoFile, cancelError, exec, resolved, probe, verdict,
    written, rival>>

\* handleResume called by the process whose earlier run has returned, or by
\* a new process: the listener of the earlier run stays registered in the
\* former case (lib.js 239 adds a listener, nothing removes one)
ResumeInProcess ==
  /\ handleResume({NoOverrides}, {NoCodexOptions})
  /\ \/ /\ pc = "returned"
        /\ mem # {}
        /\ Len(registered) + 1 < MaxRuns
        /\ registered' = Append(registered, State)
     \/ registered' = <<>>
  /\ UNCHANGED sideVarsButRegistered

\* the `state` objects of the listeners of the live process, in the order
\* process.on registered them
Listeners == registered \o (IF mem # {} THEN <<State>> ELSE <<>>)

\* SIGINT while the process is alive: lib.js 239-247 for the listener
\* registered first, whose callback (part_004 70-78) ends the process
SigintInProcess ==
  /\ pc \in {"awaiting_child", "awaiting_prompt", "returned"}
  /\ Listeners # <<>>
  /\ sigintReceived' = TRUE
  /\ child' = IF currentChild /\ child # "none" THEN "killed" ELSE child
  /\ LET paused == OnInterrupt(Listeners[1])
     IN /\ mem' = IF registered = <<>> THEN {paused} ELSE mem
        /\ stateFile' = {paused}
        /\ summaryFile' = {updateSummary(paused)}
  /\ pc' = "interrupted"
  /\ registered' = <<>>
  /\ lastEvent' = Event("sigint", NoSession)
  /\ UNCHANGED <<lastMsgFile, todoHasToken, iter, currentChild, launches,
                 runStart>>
  /\ UNCHANGED sideVarsButRegistered

NextProcess ==
  \/ HandleStartPlain
  \/ ResumeInProcess
  \/ LoopTop
  \/ ChildWriteMessage
  \/ ChildClose
  \/ ChildError
  \/ SigintInProcess

SpecProcess == Init /\ [][NextProcess]_vars

\* ---------------------------------------------------------------------
\* Two processes that run handleStart for the same loop id at the same
\* time. The steps of the second one are the file-system calls of
\* handleStart, which another process can interleave with; its loop is not
\* followed beyond the creation of the record.
\* ---------------------------------------------------------------------

\* the side variables but `rival`
sideVarsButRival ==
  <<stateFileTorn, repoFile, cancelError, exec, resolved, probe, verdict,
    written, registered>>

\* the variables of the first controller and of the files
loopVars ==
  <<stateFile, summaryFile, lastMsgFile, todoHasToken, mem, pc, iter,
    sigintReceived, currentChild, child, launches, runStart, lastEvent>>

\* part_004 238-262 in the second process: fs.existsSync(statePath) finds
\* no file, and the initial record is built
RivalStartChecks ==
  /\ rival.pc = "none"
  /\ ~StateFileExists(stateFile)
  /\ \E options \in PlainStartConfigs :
       rival' =
         [pc |-> "checked",
          initialState |->
            {createInitialState(options.maxIterations,
                                options.completionPromise, options.promiseMode,
                                options.samePromptEachIteration, options.todo,
                                ArtifactsDir(options.lastMessageDir),
                                buildCodexOptions(NoCodexOptions, NoFallback))}]
  /\ UNCHANGED loopVars
  /\ UNCHANGED sideVarsButRival

\* part_004 238-240 in the second process: the file exists, handleStart throws
RivalStartFails ==
  /\ rival.pc = "none"
  /\ StateFileExists(stateFile)
  /\ rival' = [pc |-> "failed", initialState |-> {}]
  /\ UNCHANGED loopVars
  /\ UNCHANGED sideVarsButRival

\* part_004 264-265 in the second process: saveState and updateSummary
RivalStartCreates ==
  /\ rival.pc = "checked"
  /\ stateFile' = rival.initialState
  /\ summaryFile' = {updateSummary(t) : t \in rival.initialState}
  /\ rival' = [rival EXCEPT !.pc = "created"]
  /\ UNCHANGED <<lastMsgFile, todoHasToken, mem, pc, iter, sigintReceived,
                 currentChild, child, launches, runStart, lastEvent>>
  /\ UNCHANGED sideVarsButRival

NextRace ==
  \/ HandleStartPlain
  \/ HandleStartExists
  \/ RivalStartChecks
  \/ RivalStartFails
  \/ RivalStartCreates
  \/ LoopTop
  \/ ChildWriteMessage
  \/ ChildClose
  \/ ChildError
  \/ Sigint

SpecRace == Init /\ [][NextRace]_vars

\* ---------------------------------------------------------------------
\* Loops whose children always close or fail and whose confirmation prompts
\* are always answered
\* ---------------------------------------------------------------------
LiveStartConfigs ==
  [maxIterations : 1..MaxIter, completionPromise : {Promise},
   promiseMode : {"tag"}, samePromptEachIteration : {FALSE},
   todo : {NoTodo, Todo("pause")}, lastMessageDir : {""}]

HandleStartLive == StartWith(LiveStartConfigs)

NextLive ==
  \/ HandleStartLive
  \/ HandleResumeAsStored
  \/ LoopTop
  \/ ChildWriteMessage
  \/ EditTodo
  \/ ChildClose
  \/ ChildError
  \/ PromptConfirm
  \/ PromptDecline
  \/ Sigint

\* the controller takes its next step (Node runs a ready continuation), the
\* child in flight closes or fails, and the prompt is answered
SpecLive ==
  /\ Init
  /\ [][NextLive]_vars
  /\ WF_vars(LoopTop)
  /\ WF_vars(ChildClose \/ ChildError)
  /\ WF_vars(PromptConfirm \/ PromptDecline)

\* ---------------------------------------------------------------------
\* Loops whose close steps keep what runCodexIteration captured and what
\* it was passed, next to what it returned
\* ---------------------------------------------------------------------

\* the side variables but `exec` and `resolved`
sideVarsButExec ==
  <<stateFileTorn, repoFile, cancelError, probe, verdict, written, registered,
    rival>>

ChildCloseObserved ==
  /\ \E out \in Outputs :
       /\ CloseStepWith(ExitCodes, {out})
       /\ exec' = [stdout |-> out.stdout, stderr |-> out.stderr,
                   resumeSessionId |-> launches[Len(launches)].session]
  /\ resolved' = [returned |-> TRUE, sessionId |-> lastEvent'.sessionId]
  /\ UNCHANGED sideVarsButExec

NextSession ==
  \/ HandleStartPlain
  \/ HandleStartExists
  \/ HandleResumeAsStored
  \/ LoopTop
  \/ ChildWriteMessage
  \/ ChildCloseObserved
  \/ ChildError
  \/ Sigint

SpecSession == Init /\ [][NextSession]_vars

\* ---------------------------------------------------------------------
\* Loops started and resumed with agent invocation options (--model,
\* --sandbox, --ask-for-approval, --full-auto)
\* ---------------------------------------------------------------------
CodexOptions ==
  [model : {"", "o3"}, profile : {""}, sandbox : {"", "workspace-write"},
   askForApproval : {"", "never"}, fullAuto : BOOLEAN]

CodexStartConfigs ==
  [maxIterations : 1..MaxIter, completionPromise : {Promise},
   promiseMode : {"tag"}, samePromptEachIteration : {FALSE},
   todo : {NoTodo}, lastMessageDir : {""}]

HandleStartCodex == StartWithCodex(CodexStartConfigs, CodexOptions)

HandleResumeCodex == ResumeWithCodex({NoOverrides}, CodexOptions)

NextCodex ==
  \/ HandleStartCodex
  \/ HandleStartExists
  \/ HandleResumeCodex
  \/ LoopTop
  \/ ChildClose
  \/ ChildError
  \/ Sigint

SpecCodex == Init /\ [][NextCodex]_vars

(* ------------------------- steps, for the claims ----------------------- *)

\* this step handles the close event of the in-flight child
ClosedStep == pc = "awaiting_child" /\ lastEvent'.kind = "close"
\* this step handles the error event of the in-flight child
ErrorStep == pc = "awaiting_child" /\ lastEvent'.kind = "error"
\* this step is the SIGINT handler
SigintStep ==
  pc \in {"awaiting_child", "awaiting_prompt"} /\ lastEvent'.kind = "sigint"
\* this step spawns a child
SpawnStep == pc = "top" /\ pc' = "awaiting_child"
\* this step creates a new loop
StartStep == NoProcess /\ lastEvent'.kind = "start"

\* completion detection on the final-message artifact of the iteration in
\* flight, as the controller will evaluate it
DetectsNow ==
  detectCompletion(readFileSafe(lastMsgFile[iter]), State.promise_mode,
                   State.completion_promise)

\* the history records appended by the current run
RunRecords ==
  {State.history[k] : k \in {j \in DOMAIN State.history : j > runStart}}

(* ------------------------------- claims -------------------------------- *)

\* C1: when the final message of iteration N is detected as completion,
\* that step persists status `completed` with stored iteration N and ends
\* the run, and the run never launches an invocation with an index above an
\* iteration it recorded as detected.
C1_CompletionStops ==
  /\ [][(ClosedStep /\ lastEvent'.sessionId # NoSession /\ DetectsNow) =>
          /\ pc' = "returned"
          /\ stateFile' # {}
          /\ \A f \in stateFile' : f.status = "completed" /\ f.iteration = iter
          /\ launches' = launches]_vars
  /\ [](mem # {} => \A r \in RunRecords : r.detected_promise =>
          \A k \in DOMAIN launches : launches[k].iteration <= r.iteration)

C1_Witness ==
  /\ pc = "returned"
  /\ lastEvent.kind = "close"
  /\ \E f \in stateFile :
       f.status = "completed" /\ f.iteration = 1 /\ f.max_iterations = 2
  /\ Len(launches) = 1

\* C2: no invocation of a run has an index above max_iterations, and a run
\* launches at most max_iterations minus the iteration stored at its start
\* (zero when that is not positive).
C2_NeverBeyondMax ==
  mem # {} =>
    /\ \A k \in DOMAIN launches : launches[k].iteration <= State.max_iterations
    /\ Len(launches) <= IF State.max_iterations > runStart
                        THEN State.max_iterations - runStart ELSE 0

C2_Witness ==
  /\ pc = "returned"
  /\ runStart = 1
  /\ State.max_iterations = 2
  /\ Len(launches) = 1
  /\ launches[1].iteration = 2

\* this step is the user's yes to the confirmation prompt
ConfirmStep == pc = "awaiting_prompt" /\ lastEvent'.kind = "confirm"
\* this step is the user's refusal at the confirmation prompt
DeclineStep == pc = "awaiting_prompt" /\ lastEvent'.kind = "decline"

\* the checkpoint scan of the iteration in flight would find the sentinel
HardStopNow == checkHardStop(State, todoHasToken)

\* the state file now holds status st and iteration n
Persisted(st, n) ==
  /\ stateFile' # {}
  /\ \A f \in stateFile' : f.status = st /\ f.iteration = n

\* C3 as claimed: whenever the invocation with index max_iterations closes
\* with no completion match and no checkpoint halt, the run stops with
\* `stopped_max_iterations` persisted and stored iteration max_iterations.
C3_Original ==
  [][/\ (ClosedStep /\ iter = State.max_iterations /\ ~DetectsNow /\ ~HardStopNow)
          => (pc' = "returned" /\ Persisted("stopped_max_iterations", iter))
     /\ (ConfirmStep /\ iter = State.max_iterations)
          => (pc' = "returned" /\ Persisted("stopped_max_iterations", iter))]_vars

\* C3, amended: the same, provided a session identifier was resolved for
\* the invocation with index max_iterations.
C3_MaxIterationsStops ==
  [][/\ (/\ ClosedStep /\ lastEvent'.sessionId # NoSession
         /\ iter = State.max_iterations /\ ~DetectsNow /\ ~HardStopNow)
          => (pc' = "returned" /\ Persisted("stopped_max_iterations", iter))
     /\ (ConfirmStep /\ iter = State.max_iterations)
          => (pc' = "returned" /\ Persisted("stopped_max_iterations", iter))]_vars

C3_Witness ==
  /\ pc = "returned"
  /\ lastEvent.kind = "close"
  /\ Len(launches) = 2
  /\ \E f \in stateFile :
       /\ f.status = "stopped_max_iterations"
       /\ f.iteration = 2 /\ f.max_iterations = 2
       /\ \A k \in DOMAIN f.history : ~f.history[k].detected_promise

\* C4: a stored session identifier never becomes empty again (in the state
\* file, and in the controller's record for the life of the loop), and every
\* invocation launched while one is stored uses resume framing and carries
\* the stored identifier.
C4_SessionSticks ==
  [][/\ \A f \in stateFile, g \in stateFile' :
          f.session_id # NoSession => g.session_id # NoSession
     /\ ~StartStep => \A s \in mem, t \in mem' :
          s.session_id # NoSession => t.session_id # NoSession
     /\ SpawnStep =>
          LET l == launches'[Len(launches')] IN
          /\ \A s \in mem : s.session_id # NoSession =>
               (l.framing = "resume" /\ l.session = s.session_id)
          /\ \A f \in stateFile : f.session_id # NoSession =>
               (l.framing = "resume" /\ l.session = f.session_id)]_vars

C4_Witness ==
  /\ pc = "awaiting_child"
  /\ runStart = 1
  /\ State.same_prompt_each_iteration
  /\ \E f \in stateFile : f.status = "canceled" /\ f.session_id = "A"
  /\ launches = <<[iteration |-> 2, framing |-> "resume", session |-> "A",
                   prompt |-> "full"]>>

\* C5 as claimed: once a session identifier is stored, the stored identifier
\* keeps that value through every later step of the loop.
C5_SingleSession ==
  [][~StartStep => \A s \in mem, t \in mem' :
       s.session_id # NoSession => t.session_id = s.session_id]_vars

\* C6: an error event of the in-flight child sets and persists `error_spawn`,
\* ends the run without another launch, and leaves iteration, history and
\* session identifier as they were.
C6_SpawnFailure ==
  [][ErrorStep =>
       /\ pc' = "returned"
       /\ launches' = launches
       /\ stateFile' = mem'
       /\ \A t \in mem' :
            /\ t.status = "error_spawn"
            /\ t.iteration = State.iteration
            /\ t.history = State.history
            /\ t.session_id = State.session_id
            /\ \A f \in stateFile :
                 /\ t.iteration = f.iteration
                 /\ t.history = f.history
                 /\ t.session_id = f.session_id]_vars

C6_Witness ==
  /\ pc = "returned"
  /\ lastEvent.kind = "error"
  /\ Len(launches) = 2
  /\ \E f \in stateFile :
       /\ f.status = "error_spawn"
       /\ f.iteration = 1 /\ Len(f.history) = 1 /\ f.session_id = "A"

\* C7: a close with no session identifier resolved or carried over sets and
\* persists `error_no_session`, ends the run without another launch, and
\* leaves iteration, history, session identifier and last_result unchanged.
C7_NoSession ==
  [][(ClosedStep /\ lastEvent'.sessionId = NoSession) =>
       /\ pc' = "returned"
       /\ launches' = launches
       /\ stateFile' = mem'
       /\ \A t \in mem' :
            /\ t = [State EXCEPT !.status = "error_no_session"]
            /\ \A f \in stateFile :
                 /\ t.iteration = f.iteration
                 /\ t.history = f.history
                 /\ t.session_id = f.session_id
                 /\ t.last_result = f.last_result]_vars

C7_Witness ==
  /\ pc = "returned"
  /\ lastEvent.kind = "close" /\ lastEvent.sessionId = NoSession
  /\ \E f \in stateFile :
       /\ f.status = "error_no_session"
       /\ f.iteration = 0 /\ f.history = <<>> /\ f.session_id = NoSession
       /\ f.last_result = LastResult(ExitNull, FALSE)

\* C8: a SIGINT during an invocation signals the in-flight child and
\* persists `paused_user_interrupt`; from then on the interrupted run writes
\* nothing else: the controller's status stays `paused_user_interrupt` and
\* the state file holds it (or `canceled`, written by the cancel command).
C8_InterruptWins ==
  /\ [][(SigintStep /\ pc = "awaiting_child") =>
          /\ child' = "killed"
          /\ stateFile' # {}
          /\ \A f \in stateFile' : f.status = "paused_user_interrupt"]_vars
  /\ [](sigintReceived =>
          /\ State.status = "paused_user_interrupt"
          /\ \A f \in stateFile :
               f.status \in {"paused_user_interrupt", "canceled"})

C8_Witness ==
  /\ pc = "interrupted"
  /\ child = "killed"
  /\ sigintReceived
  /\ \E f \in stateFile : f.status = "paused_user_interrupt" /\ f.iteration = 1

\* C9: the SIGINT handler changes the status of the state record and nothing
\* else: what it persists agrees with the record before the interrupt, in
\* memory and in the state file, on session identifier, iteration, history
\* and last_result.
C9_InterruptFrame ==
  [][SigintStep =>
       /\ mem' = {[State EXCEPT !.status = "paused_user_interrupt"]}
       /\ stateFile' = mem'
       /\ \A f \in stateFile, g \in stateFile' :
            /\ g.session_id = f.session_id
            /\ g.iteration = f.iteration
            /\ g.history = f.history
            /\ g.last_result = f.last_result]_vars

C9_Witness ==
  /\ pc = "interrupted"
  /\ lastEvent.kind = "sigint"
  /\ \E f \in stateFile :
       /\ f.status = "paused_user_interrupt"
       /\ f.session_id = "B" /\ f.iteration = 1
       /\ f.last_result = LastResult(1, FALSE)

\* C10: a close without completion whose checkpoint scan finds the sentinel
\* persists `paused_hard_stop` with the paused-for-checkpoint flag set; in
\* `exit` mode the run ends there, in `pause` mode it ends when the user
\* declines, still `paused_hard_stop` with the flag set; and such a run has
\* launched nothing beyond the iteration it paused after.
C10_HardStopHalts ==
  /\ [][/\ (/\ ClosedStep /\ lastEvent'.sessionId # NoSession
            /\ ~DetectsNow /\ HardStopNow) =>
              /\ Persisted("paused_hard_stop", iter)
              /\ \A f \in stateFile' : f.todo.paused_for_hard_stop
              /\ launches' = launches
              /\ pc' = IF State.todo.hard_stop_mode = "exit"
                       THEN "returned" ELSE "awaiting_prompt"
        /\ DeclineStep =>
              /\ pc' = "returned"
              /\ launches' = launches
              /\ mem' = mem /\ stateFile' = stateFile
              /\ State.status = "paused_hard_stop"
              /\ State.todo.paused_for_hard_stop
              /\ \A f \in stateFile :
                   /\ f.status \in {"paused_hard_stop", "canceled"}
                   /\ f.todo.paused_for_hard_stop]_vars
  /\ []((pc = "returned" /\ State.status = "paused_hard_stop") =>
          \A k \in DOMAIN launches : launches[k].iteration <= State.iteration)

C10_Witness ==
  /\ pc = "returned"
  /\ lastEvent.kind = "decline"
  /\ Len(launches) = 1
  /\ \E f \in stateFile :
       /\ f.status = "paused_hard_stop"
       /\ f.todo.paused_for_hard_stop
       /\ f.iteration = 1 /\ f.max_iterations = 2

\* C11 as claimed: after the user's yes in `pause` mode the flag is cleared,
\* `running` is persisted and the loop goes on to the next iteration.
C11_Original ==
  [][ConfirmStep =>
       /\ stateFile' # {}
       /\ \A f \in stateFile' :
            f.status = "running" /\ ~f.todo.paused_for_hard_stop
       /\ pc' = "top" /\ iter' = iter + 1]_vars

\* C11, amended: after the user's yes the flag is cleared and persisted; if
\* the iteration was not the last permitted one, `running` is persisted and
\* the loop goes on to the next iteration, otherwise the run stops with
\* `stopped_max_iterations`.
C11_ConfirmContinues ==
  [][ConfirmStep =>
       /\ stateFile' # {}
       /\ stateFile' = mem'
       /\ \A f \in stateFile' :
            /\ ~f.todo.paused_for_hard_stop
            /\ f.iteration = iter
            /\ IF iter < State.max_iterations
               THEN f.status = "running" /\ pc' = "top" /\ iter' = iter + 1
               ELSE f.status = "stopped_max_iterations" /\ pc' = "returned"]_vars

C11_Witness ==
  /\ pc = "top"
  /\ lastEvent.kind = "confirm"
  /\ iter = 2
  /\ \E f \in stateFile :
       /\ f.status = "running"
       /\ f.todo.configured /\ ~f.todo.paused_for_hard_stop
       /\ f.iteration = 1

\* the statuses the spec calls terminal
TerminalStatuses ==
  {"completed", "stopped_max_iterations", "canceled", "error_spawn",
   "error_no_session"}

\* C12 as claimed: while the state file holds a terminal status no
\* invocation is launched, except the first one of a resume.
C12_TerminalNoLaunch ==
  [][SpawnStep =>
       \A f \in stateFile :
         f.status \in TerminalStatuses => lastEvent.kind = "resume"]_vars

\* h is an initial segment of g
IsPrefix(h, g) == Len(h) <= Len(g) /\ SubSeq(g, 1, Len(h)) = h

\* the k-th record of the history carries k, and there are `iteration` records
WellNumbered(s) ==
  /\ Len(s.history) = s.iteration
  /\ \A k \in DOMAIN s.history : s.history[k].iteration = k

\* C13: in the state file and in the controller's record the history has as
\* many records as the stored iteration, the k-th record is numbered k, and
\* a step only ever appends to it.
C13_HistoryAppendOnly ==
  /\ [](\A s \in stateFile \cup mem : WellNumbered(s))
  /\ [][/\ \A f \in stateFile, g \in stateFile' : IsPrefix(f.history, g.history)
        /\ ~StartStep =>
             \A s \in mem, t \in mem' : IsPrefix(s.history, t.history)]_vars

C13_Witness ==
  /\ pc = "returned"
  /\ runStart = 1
  /\ \E f \in stateFile :
       /\ f.iteration = 2
       /\ Len(f.history) = 2
       /\ f.history[1].exit_code = 1
       /\ f.history[2].iteration = 2

\* C16: the first invocation of a resumed run has index stored iteration
\* plus one and is passed the stored session identifier.
C16_ResumeContinues ==
  [][(SpawnStep /\ lastEvent.kind = "resume") =>
       LET l == launches'[Len(launches')] IN
       /\ Len(launches') = 1
       /\ l.iteration = State.iteration + 1
       /\ l.session = State.session_id
       /\ \A f \in stateFile :
            /\ l.iteration = f.iteration + 1
            /\ l.iteration = Len(f.history) + 1
            /\ l.session = f.session_id
            /\ l.framing = IF f.session_id = NoSession THEN "fresh" ELSE "resume"]_vars

C16_Witness ==
  /\ pc = "awaiting_child"
  /\ \E f \in stateFile :
       /\ f.status = "paused_user_interrupt"
       /\ f.iteration = 1 /\ f.session_id = "B"
  /\ launches = <<[iteration |-> 2, framing |-> "resume", session |-> "B",
                   prompt |-> "continue"]>>

\* this step is a resume command taking up the stored record
ResumeStep == NoProcess /\ lastEvent'.kind = "resume" /\ pc' = "top"

\* C15: a resume persists, for each of max_iterations, completion_promise,
\* promise_mode and same_prompt_each_iteration, the value given on the
\* command line (the stored one if none is given), keeps loop_id, prompt and
\* history, and the run that follows launches, prompts and detects
\* completion with the persisted values.
C15_ResumeOverrides ==
  /\ [][ResumeStep =>
          LET o == lastEvent'.options IN
          /\ stateFile' # {}
          /\ mem' = stateFile'
          /\ \A f \in stateFile, g \in stateFile' :
               /\ g.max_iterations =
                    IF o.maxIterations # 0 THEN o.maxIterations
                    ELSE f.max_iterations
               /\ g.completion_promise =
                    IF o.completionPromise # <<>> THEN o.completionPromise
                    ELSE f.completion_promise
               /\ g.promise_mode =
                    IF o.promiseMode # "" THEN o.promiseMode ELSE f.promise_mode
               /\ g.same_prompt_each_iteration =
                    IF o.samePromptEachIteration = "true" THEN TRUE
                    ELSE f.same_prompt_each_iteration
               /\ g.loop_id = f.loop_id
               /\ g.prompt = f.prompt
               /\ g.history = f.history]_vars
  /\ [][SpawnStep =>
          \A f \in stateFile :
            LET l == launches'[Len(launches')] IN
            /\ l.iteration <= f.max_iterations
            /\ l.prompt = "full" <=>
                 (f.session_id = NoSession \/ f.same_prompt_each_iteration)]_vars
  /\ [][(ClosedStep /\ lastEvent'.sessionId # NoSession) =>
          \A f \in stateFile, t \in mem' :
            t.last_result.detected_promise =
              detectCompletion(readFileSafe(lastMsgFile[iter]), f.promise_mode,
                               f.completion_promise)]_vars

C15_Witness ==
  /\ pc = "returned"
  /\ lastEvent.kind = "close"
  /\ runStart = 1
  /\ lastMsgFile[2] = MsgFile(MsgBare)
  /\ \E f \in stateFile :
       /\ f.status = "completed"
       /\ f.completion_promise = ResumePromise
       /\ f.promise_mode = "plain"
       /\ Len(f.history) = 2
       /\ ~f.history[1].detected_promise
       /\ f.history[2].detected_promise
       /\ f.loop_id = "loop" /\ f.prompt = "task"
\* this step is a start command, successful or not
StartAttemptStep ==
  /\ NoProcess
  /\ \/ lastEvent'.kind = "start"
     \/ lastEvent'.kind = "start_failed" /\ lastEvent.kind # "start_failed"

\* C17: a start command issued while the state file exists fails, spawns
\* nothing, and leaves the state file and the summary as they were.
C17_StartOnExistingFails ==
  [][(StartAttemptStep /\ stateFile # {}) =>
       /\ pc' = "failed"
       /\ lastEvent'.kind = "start_failed"
       /\ launches' = <<>>
       /\ ~currentChild'
       /\ child' = child
       /\ stateFile' = stateFile
       /\ summaryFile' = summaryFile
       /\ lastMsgFile' = lastMsgFile]_vars

C17_Witness ==
  /\ pc = "failed"
  /\ lastEvent.kind = "start_failed"
  /\ summaryFile # {}
  /\ \E f \in stateFile : f.status = "completed" /\ f.iteration = 2
\* the controller process takes no step
ControllerIdle ==
  UNCHANGED <<mem, pc, iter, sigintReceived, currentChild, launches, runStart,
              lastEvent>>

\* this step is a cancel command that leaves the state file in place
CancelKeepStep ==
  /\ ControllerIdle
  /\ stateFile # {} /\ stateFile' # {} /\ stateFile' # stateFile

\* this step is a cancel command for a loop that has no state file
CancelMissingStep ==
  /\ ControllerIdle
  /\ stateFile = {}
  /\ cancelError' # cancelError \/ stateFile' # {}

\* C18: a cancel without cleanup rewrites the state file with status
\* `canceled` and every other field as it was, and leaves the summary, the
\* final-message artifacts and the repository alone; a cancel of a loop
\* without a state file fails and creates no file.
C18_CancelFrame ==
  [][/\ CancelKeepStep =>
          /\ \A f \in stateFile, g \in stateFile' :
               g = [f EXCEPT !.status = "canceled"]
          /\ UNCHANGED <<summaryFile, lastMsgFile, repoFile, todoHasToken,
                         stateFileTorn, child>>
     /\ CancelMissingStep =>
          /\ cancelError'
          /\ stateFile' = {}
          /\ UNCHANGED <<summaryFile, lastMsgFile, repoFile, todoHasToken,
                         stateFileTorn, child>>]_vars

C18_Witness ==
  /\ cancelError
  /\ pc = "returned"
  /\ lastMsgFile[1].exists
  /\ \E f \in stateFile :
       /\ f.status = "canceled"
       /\ f.iteration = 1 /\ f.session_id = "A" /\ Len(f.history) = 1
  /\ \E y \in summaryFile : y.status = "stopped_max_iterations"

\* C19 as claimed: the repository file is never deleted.
C19_RepoFilesSurvive == repoFile
\* the least element of a non-empty set of positions
First(S) == CHOOSE i \in S : \A j \in S : i <= j

\* the line is an event that JSON.parse accepts and that names a session
CarriesSession(l) ==
  /\ l.brace /\ l.valid
  /\ l.session_id # "" \/ l.nested_id # "" \/ (l.id # "" /\ l.type = "session")

\* C20: the identifier returned is that of the first event line naming a
\* session, in stdout then stderr (by session_id, else session.id, else the
\* id of a `session` event); with no such line, the first UUID in the text of
\* stdout, else of stderr; with none, the identifier passed in for resume;
\* and it is empty only when all of these are absent.
C20_SessionPriority ==
  resolved.returned =>
    LET all == exec.stdout \o exec.stderr
        E == {i \in DOMAIN all : CarriesSession(all[i])}
        U == {i \in DOMAIN exec.stdout : exec.stdout[i].uuid # ""}
        V == {i \in DOMAIN exec.stderr : exec.stderr[i].uuid # ""}
        e == all[First(E)]
    IN /\ E # {} =>
            resolved.sessionId =
              IF e.session_id # "" THEN e.session_id
              ELSE IF e.nested_id # "" THEN e.nested_id ELSE e.id
       /\ (E = {} /\ U # {}) =>
            resolved.sessionId = exec.stdout[First(U)].uuid
       /\ (E = {} /\ U = {} /\ V # {}) =>
            resolved.sessionId = exec.stderr[First(V)].uuid
       /\ (E = {} /\ U = {} /\ V = {}) =>
            resolved.sessionId = exec.resumeSessionId
       /\ resolved.sessionId = NoSession <=>
            (E = {} /\ U = {} /\ V = {} /\ exec.resumeSessionId = NoSession)

C20_Witness ==
  /\ resolved.returned
  /\ resolved.sessionId = "A"
  /\ exec.stdout = <<TextLine("B"), EventLine("A")>>
  /\ exec.stderr = <<TextLine("B")>>
  /\ exec.resumeSessionId = "R"
\* C14 as claimed: the state file never holds a partially written record.
C14_NeverPartial == ~stateFileTorn
\* text = before \o part \o after for some before and after
Contains(text, part) ==
  \E i \in 0..Len(text), j \in 0..Len(text) :
    i <= j /\ SubSeq(text, i + 1, j) = part

\* C21: detectCompletion returns false for an empty or absent message in
\* every mode; for any other message it returns, in tag mode, whether the
\* message contains <promise>token</promise>, and in plain mode, whether
\* it contains the token.
C21_DetectCompletion ==
  verdict.returned =>
    /\ probe.lastMessage = <<>> => ~verdict.value
    /\ (probe.lastMessage # <<>> /\ probe.promiseMode = "tag") =>
         (verdict.value <=>
            Contains(probe.lastMessage,
                     <<"<", "p", "r", "o", "m", "i", "s", "e", ">">>
                       \o probe.completionPromise
                       \o <<"<", "/", "p", "r", "o", "m", "i", "s", "e", ">">>))
    /\ (probe.lastMessage # <<>> /\ probe.promiseMode = "plain") =>
         (verdict.value <=>
            Contains(probe.lastMessage, probe.completionPromise))

C21_Witness ==
  /\ verdict.returned
  /\ verdict.value
  /\ probe.promiseMode = "tag"
  /\ probe.completionPromise = Promise
  /\ probe.lastMessage = <<" ">> \o OpenTag \o Promise \o CloseTag
\* the loop of the running controller has a pattern that does not compile
BadPattern(state) ==
  state.promise_mode = "regex" /\ state.completion_promise = BadPromise

\* C22: with a pattern that does not compile, every invocation that closes
\* with a session identifier is counted and recorded with detection false,
\* the status it leaves is `paused_hard_stop` when the checkpoint scan
\* finds the sentinel, else `stopped_max_iterations` at the last permitted
\* iteration, else `running` with the loop going on; and such a loop is
\* never `completed`.
C22_BadRegexGoesOn ==
  /\ [][(ClosedStep /\ lastEvent'.sessionId # NoSession /\ BadPattern(State)) =>
          /\ stateFile' = mem'
          /\ \A t \in mem' :
               /\ t.iteration = iter
               /\ Len(t.history) = Len(State.history) + 1
               /\ t.history[Len(t.history)].iteration = iter
               /\ ~t.history[Len(t.history)].detected_promise
               /\ ~t.last_result.detected_promise
               /\ IF HardStopNow THEN t.status = "paused_hard_stop" /\ pc' # "top"
                  ELSE IF iter >= State.max_iterations
                  THEN t.status = "stopped_max_iterations" /\ pc' = "returned"
                  ELSE t.status = "running" /\ pc' = "top" /\ iter' = iter + 1]_vars
  /\ [](\A s \in stateFile \cup mem : BadPattern(s) => s.status # "completed")

C22_Witness ==
  /\ pc = "returned"
  /\ lastMsgFile[1] = MsgFile(MsgTagged)
  /\ lastMsgFile[2] = MsgFile(MsgBare)
  /\ \E f \in stateFile :
       /\ BadPattern(f)
       /\ f.status = "stopped_max_iterations"
       /\ f.iteration = 2
       /\ Len(f.history) = 2
       /\ ~f.history[1].detected_promise /\ ~f.history[2].detected_promise
\* C23: a close with a session identifier, a final message that is detected
\* as completion and a checkpoint file that holds the sentinel ends the run
\* with `completed` persisted; the step does not persist `paused_hard_stop`,
\* does not wait for a confirmation, and leaves the paused-for-checkpoint
\* flag as it was.
C23_CompletionBeforeCheckpoint ==
  [][(ClosedStep /\ lastEvent'.sessionId # NoSession /\ DetectsNow /\ HardStopNow) =>
       /\ pc' = "returned"
       /\ Persisted("completed", iter)
       /\ mem' = stateFile'
       /\ launches' = launches
       /\ \A f \in stateFile' :
            f.todo.paused_for_hard_stop = State.todo.paused_for_hard_stop]_vars

C23_Witness ==
  /\ pc = "returned"
  /\ lastEvent.kind = "close"
  /\ todoHasToken
  /\ runStart = 0
  /\ \E f \in stateFile :
       /\ f.status = "completed"
       /\ f.todo.configured /\ f.todo.hard_stop_mode = "pause"
       /\ ~f.todo.paused_for_hard_stop
       /\ f.iteration = 1 /\ f.max_iterations = 2
       /\ f.history[1].detected_promise
\* C24: no invocation is spawned while the interrupt flag is set; the
\* SIGINT handler ends the controller process without spawning, and as long
\* as the flag stays set the list of invocations of the run does not grow.
C24_NoLaunchAfterInterrupt ==
  /\ [][SpawnStep => ~sigintReceived]_vars
  /\ [][SigintStep => (pc' = "interrupted" /\ launches' = launches)]_vars
  /\ [][(sigintReceived /\ sigintReceived') => launches' = launches]_vars
  /\ [](sigintReceived => pc = "interrupted")

C24_Witness ==
  /\ pc = "interrupted"
  /\ sigintReceived
  /\ child = "killed"
  /\ Len(launches) = 2
  /\ \E f \in stateFile :
       /\ f.status = "paused_user_interrupt"
       /\ f.iteration = 1 /\ f.max_iterations = 2
\* C25 as claimed: the stored iteration counts the invocations that have
\* closed, so every close of a child adds one to it.
C25_Original ==
  [][ClosedStep =>
       \A f \in stateFile, g \in stateFile' : g.iteration = f.iteration + 1]_vars

\* C25, amended: the stored iteration counts the invocations that closed
\* with a session identifier resolved: such a close adds one to it, no other
\* step changes it, and it equals the number of history records.
C25_IterationCountsRecorded ==
  /\ [][\A f \in stateFile, g \in stateFile' :
          g.iteration = IF ClosedStep /\ lastEvent'.sessionId # NoSession
                        THEN f.iteration + 1 ELSE f.iteration]_vars
  /\ [](\A f \in stateFile : f.iteration >= 0 /\ f.iteration = Len(f.history))

C25_Witness ==
  /\ pc = "returned"
  /\ lastEvent.kind = "close"
  /\ \E f \in stateFile :
       /\ f.status = "stopped_max_iterations"
       /\ f.iteration = 2
       /\ f.history[1].exit_code = 1 /\ f.history[2].exit_code = 0
\* C26: a child is spawned only when no child is running and none is
\* registered; while a controller process is alive, a child is registered
\* exactly when the controller waits for it and that child is running; and
\* the SIGINT handler signals a child exactly when it interrupts that wait.
C26_OneChildRegistered ==
  /\ [][SpawnStep => (child = "none" /\ ~currentChild /\ child' = "running")]_vars
  /\ [][SigintStep =>
          /\ (pc = "awaiting_child") => (child = "running" /\ child' = "killed")
          /\ (pc = "awaiting_prompt") => (child = "none" /\ child' = "none")]_vars
  /\ [](~NoProcess =>
          /\ currentChild <=> pc = "awaiting_child"
          /\ currentChild <=> child = "running")

C26_Witness ==
  /\ pc = "awaiting_prompt"
  /\ ~currentChild
  /\ child = "none"
  /\ Len(launches) = 1
  /\ State.status = "paused_hard_stop"

\* the controller process is suspended
Suspended == pc \in {"awaiting_child", "awaiting_prompt"}

\* C27 as claimed: an invocation is spawned only when the state file holds
\* the outcome of the one before it, with the session identifier stored
\* there; and whenever the controller is suspended the state file and the
\* controller's record agree on status, iteration, session and history.
C27_Original ==
  /\ [][SpawnStep =>
          LET l == launches'[Len(launches')] IN
          /\ stateFile # {}
          /\ \A f \in stateFile :
               /\ f.iteration = l.iteration - 1
               /\ Len(f.history) = l.iteration - 1
               /\ f.session_id = l.session]_vars
  /\ [](Suspended =>
          \A f \in stateFile :
            /\ f.status = State.status
            /\ f.iteration = State.iteration
            /\ f.session_id = State.session_id
            /\ f.history = State.history)

\* C28: every invocation is sent the full prompt when the record, in the
\* controller and in the state file, has no session identifier or has
\* same_prompt_each_iteration set, and the continuation prompt otherwise.
C28_PromptChoice ==
  [][SpawnStep =>
       LET l == launches'[Len(launches')] IN
       /\ l.prompt \in {"full", "continue"}
       /\ \A s \in mem \cup stateFile :
            l.prompt = "full" <=>
              (s.session_id = NoSession \/ s.same_prompt_each_iteration)]_vars

C28_Witness ==
  /\ pc = "awaiting_child"
  /\ runStart = 0
  /\ State.same_prompt_each_iteration
  /\ launches = <<[iteration |-> 1, framing |-> "fresh", session |-> NoSession,
                   prompt |-> "full"],
                 [iteration |-> 2, framing |-> "resume", session |-> "A",
                   prompt |-> "full"]>>

\* C29: a close with a session identifier is recorded whatever the exit
\* code (0, nonzero or none): the iteration is counted, the history gains a
\* record with that exit code, last_result holds it, and the status the
\* step leaves is decided by completion detection, the checkpoint scan and
\* the iteration cap alone; it is never an error status.
C29_NonzeroExitIsNormal ==
  [][(ClosedStep /\ lastEvent'.sessionId # NoSession) =>
       /\ stateFile' = mem'
       /\ \A t \in mem' :
            /\ t.iteration = iter
            /\ Len(t.history) = Len(State.history) + 1
            /\ t.history[Len(t.history)].exit_code = lastEvent'.exitCode
            /\ t.last_result.exit_code = lastEvent'.exitCode
            /\ t.status =
                 IF DetectsNow THEN "completed"
                 ELSE IF HardStopNow THEN "paused_hard_stop"
                 ELSE IF iter >= State.max_iterations THEN "stopped_max_iterations"
                 ELSE "running"
            /\ (t.status = "running") => (pc' = "top" /\ iter' = iter + 1)]_vars

C29_Witness ==
  /\ pc = "returned"
  /\ lastEvent.kind = "close"
  /\ lastEvent.exitCode = 1
  /\ \E f \in stateFile :
       /\ f.status = "completed"
       /\ f.iteration = 2
       /\ Len(f.history) = 2
       /\ f.history[1].exit_code = ExitNull
       /\ f.history[2].exit_code = 1
       /\ f.history[2].detected_promise

\* last_result of record t repeats its most recent history record
MatchesLastRecord(t) ==
  t.history # <<>> =>
    t.last_result = LastResult(t.history[Len(t.history)].exit_code,
                               t.history[Len(t.history)].detected_promise)

\* every copy of the record, in memory and in the state file
Records == mem \cup stateFile

\* C30 as claimed: in every reachable state with a non-empty history,
\* last_result holds the exit code and the detection flag of the most recent
\* history record.
C30_Original == \A t \in Records : MatchesLastRecord(t)

\* C30: last_result holds the exit code and the detection flag of the most
\* recent history record, except after an invocation that failed to spawn
\* since that record was written, when it holds exit code null and flag
\* false: a recorded close makes the two agree, and only the spawn-failure
\* step makes them differ.
C30_LastResultTracksHistory ==
  /\ [](\A t \in Records :
          MatchesLastRecord(t) \/ t.last_result = LastResult(ExitNull, FALSE))
  /\ [][(ClosedStep /\ lastEvent'.sessionId # NoSession) =>
          \A t \in mem' \cup stateFile' : MatchesLastRecord(t)]_vars
  /\ [][(~ErrorStep /\ \A t \in Records : MatchesLastRecord(t)) =>
          \A t \in mem' \cup stateFile' : MatchesLastRecord(t)]_vars

C30_Witness ==
  /\ pc = "returned"
  /\ lastEvent.kind = "error"
  /\ \E f \in stateFile :
       /\ f.status = "error_spawn"
       /\ Len(f.history) = 1
       /\ f.history[1].exit_code = 0
       /\ f.last_result = LastResult(ExitNull, FALSE)

\* C31 as claimed: in every persisted state the paused-for-checkpoint flag
\* is true only if the status is `paused_hard_stop`.
C31_Original ==
  \A f \in stateFile :
    f.todo.paused_for_hard_stop => f.status = "paused_hard_stop"

\* C32 as claimed: whenever an agent invocation is in flight, the persisted
\* status of its loop is `running`.
C32_Original ==
  (pc = "awaiting_child" /\ child = "running") =>
    \A f \in stateFile : f.status = "running"

\* C33 as claimed: completion is detected for iteration N only on a final
\* message written by iteration N's own invocation, never on a file an
\* earlier unrecorded attempt of index N left at the same path.
C33_Original ==
  [][(ClosedStep /\ lastEvent'.sessionId # NoSession /\ DetectsNow) =>
       written]_vars

\* C34 as claimed: on resume, every agent invocation option that is not
\* overridden on the resume command keeps the value stored in the state
\* record.
C34_Original ==
  [][ResumeStep =>
       \A f \in stateFile, t \in stateFile' :
         LET o == lastEvent'.codexOptions
         IN /\ (o.model = "") => (t.codex.model = f.codex.model)
            /\ (o.profile = "") => (t.codex.profile = f.codex.profile)
            /\ (o.sandbox = "" /\ ~o.fullAuto) =>
                  (t.codex.sandbox = f.codex.sandbox)
            /\ (o.askForApproval = "" /\ ~o.fullAuto) =>
                  (t.codex.approval = f.codex.approval)]_vars

\* the summary projection u repeats the state record f
SummaryAgrees(f, u) ==
  /\ u.status = f.status
  /\ u.iteration = f.iteration
  /\ u.max_iterations = f.max_iterations
  /\ u.completion_promise = f.completion_promise
  /\ u.history = f.history

\* C35 as claimed: after every operation that writes the state record, the
\* summary projection agrees with the state record on status, iteration,
\* max_iterations, completion_promise and history.
C35_Original ==
  [][(stateFile' # stateFile) =>
       \A f \in stateFile', u \in summaryFile' : SummaryAgrees(f, u)]_vars

\* C36 as claimed: after a run has ended with `completed` or
\* `stopped_max_iterations`, an interrupt delivered later in the same
\* process does not change the persisted status, and an interrupt during a
\* second run of the process pauses that run's record, not the first run's.
C36_Original ==
  [][(lastEvent'.kind = "sigint" /\ lastEvent.kind # "sigint") =>
       /\ (pc = "returned" /\ \A f \in stateFile :
                                f.status \in {"completed", "stopped_max_iterations"})
            => (\A f \in stateFile, t \in stateFile' : t.status = f.status)
       /\ (pc # "returned") => (stateFile' = {OnInterrupt(State)})]_vars

\* C37 as claimed: of two start operations racing on the same loop id, at
\* most one creates the state record, and a record once created is never
\* overwritten by the other start.
C37_Original ==
  [][/\ (rival'.pc = "created" /\ rival.pc # "created") => (stateFile = {})
     /\ StartStep => (stateFile = {} /\ rival.pc # "created")]_vars

\* a run of runLoop is under way
InRunLoop == pc \in {"top", "awaiting_child", "awaiting_prompt"}

\* this step is the return of runLoop
ReturnStep == InRunLoop /\ pc' = "returned"

\* C38: when children always close or fail and prompts are always
\* answered, every run of runLoop ends (it returns, or an interrupt ends
\* the process); and when it returns after launching an invocation, the
\* status of its record is `completed`, `stopped_max_iterations`,
\* `paused_hard_stop`, `error_spawn` or `error_no_session`, never `running`.
C38_RunLoopReturns ==
  /\ InRunLoop ~> (pc \in {"returned", "interrupted"})
  /\ [][(ReturnStep /\ launches' # <<>>) =>
          \A t \in mem' :
            t.status \in {"completed", "stopped_max_iterations",
                          "paused_hard_stop", "error_spawn",
                          "error_no_session"}]_vars

C38_Witness ==
  /\ pc = "returned"
  /\ Len(launches) = 2
  /\ lastEvent.kind = "confirm"
  /\ State.status = "stopped_max_iterations"
  /\ State.iteration = 2

\* C39: in every reachable state, a record whose status is `completed`, in
\* memory or in the state file, has a non-empty history, and its last
\* history record and its last_result both have detected_promise = true.
C39_CompletedMeansDetected ==
  \A t \in Records :
    (t.status = "completed") =>
       /\ t.history # <<>>
       /\ t.history[Len(t.history)].detected_promise
       /\ t.last_result.set
       /\ t.last_result.detected_promise

C39_Witness ==
  /\ pc = "awaiting_child"
  /\ lastEvent.kind = "spawn"
  /\ runStart = 1
  /\ \A t \in Records : t.status = "completed" /\ Len(t.history) = 1
  /\ stateFile # {}

\* neither parser finds an identifier in what the call captured
NoIdentifierIn(captured) ==
  /\ parseSessionIdFromJsonLines(captured.stdout \o captured.stderr) = NoSession
  /\ parseSessionIdFromText(captured.stdout) = NoSession
  /\ parseSessionIdFromText(captured.stderr) = NoSession

\* C40: a record with status `error_no_session` stores no session
\* identifier, and the status is only set by the close of an invocation that
\* was launched without one; the close of an invocation launched with the
\* stored identifier is recorded as an iteration, under the stored identifier
\* when its output carries none.
C40_NoSessionOnlyWithoutStored ==
  /\ [](\A t \in Records :
          (t.status = "error_no_session") => (t.session_id = NoSession))
  /\ [][ClosedStep =>
          LET stored == launches[Len(launches)].session
          IN /\ (\A t \in mem' : t.status = "error_no_session")
                  => (stored = NoSession /\ State.session_id = NoSession)
             /\ (stored # NoSession) =>
                  \A t \in mem' :
                    /\ t.status # "error_no_session"
                    /\ t.iteration = iter
                    /\ Len(t.history) = Len(State.history) + 1
                    /\ t.session_id = lastEvent'.sessionId
                    /\ NoIdentifierIn(exec') => (t.session_id = stored)]_vars

C40_Witness ==
  /\ lastEvent.kind = "close"
  /\ exec.resumeSessionId # NoSession
  /\ NoIdentifierIn(exec)
  /\ resolved.sessionId = exec.resumeSessionId
  /\ \A t \in Records :
       /\ t.iteration = 2
       /\ Len(t.history) = 2
       /\ t.session_id = exec.resumeSessionId
  /\ stateFile # {}
====
